---- MODULE Spec2Model ----
(***************************************************************************)
(* A model of argmap: the model client (src/argmap/llm.py), the extraction *)
(* pipeline (src/argmap/extract.py) and the content-addressable store and  *)
(* endpoints of src/server.py.                                             *)
(*                                                                         *)
(* Eight specifications share the module's variables:                      *)
(*   SpecInit   init_llm_client applied to every combination of its inputs *)
(*   SpecCred   concurrent requests setting and reading the request key    *)
(*   SpecLLM    generate_json / generate_content, with and without cache   *)
(*   Spec       concurrent requests at the two extraction endpoints        *)
(*   SpecSerial one request at a time, over every kind of model response   *)
(*   SpecStore  requests of any content, and lookups of the store          *)
(*   SpecCrash  the requests of Spec, with the process dying at any point  *)
(*   SpecList   listings of a saved/ directory holding foreign files       *)
(***************************************************************************)
EXTENDS Integers, Sequences, FiniteSets

(***************************************************************************)
(* Python values.  A value is None, a str (a sequence of tokens) or an int *)
(* (which stands for any non-string object).  All three fields are always  *)
(* present so that any two values can be compared.                         *)
(***************************************************************************)
NoneV == [tag |-> "none", s |-> <<>>, n |-> 0]

StrV(x) == [tag |-> "str", s |-> x, n |-> 0]

IntV(k) == [tag |-> "int", s |-> <<>>, n |-> k]

EmptyStr == StrV(<<>>)

\* Python truthiness: None, "" and 0 are falsy.
Truthy(v) == \/ v.tag = "str" /\ v.s # <<>>
             \/ v.tag = "int" /\ v.n # 0

\* Python's  a or b : a when a is truthy, b otherwise.
PyOr(a, b) == IF Truthy(a) THEN a ELSE b

\* isinstance(v, str)
IsStr(v) == v.tag = "str"

(***************************************************************************)
(* Bounds.                                                                 *)
(***************************************************************************)
\* request slots served concurrently
NReq == 2

\* requests accepted over a run
MaxArrivals == 3

Reqs == 1..NReq

\* the contexts the ContextVar has a value in: the server's root context and
\* one per request slot
RootCtx == 0

Contexts == {RootCtx} \cup Reqs

KeyNames == {"k1", "k2"}

\* what a caller can put in the body's api_key field, or pass as api_key
KeyVals == {NoneV, EmptyStr} \cup {StrV(<<k>>) : k \in KeyNames}

\* what a caller can put in the X-API-Key header
HeaderVals == {NoneV} \cup {StrV(<<k>>) : k \in KeyNames}

\* what os.getenv can return for GEMINI_API_KEY / GOOGLE_CLOUD_PROJECT
EnvKeyVals == {NoneV, EmptyStr, StrV(<<"envkey">>)}

EnvProjectVals == {NoneV, EmptyStr, StrV(<<"envproject">>)}

ProjectVals == {NoneV, EmptyStr, StrV(<<"project">>)}

\* calls of generate_json over a run
MaxCalls == 2

\* distinct prompts (the combined system + user text) handed to generate_json
MaxPrompt == 2

\* distinct source texts a request can carry
MaxText == 2

\* distinct model overrides a request can carry (0 is "no override")
MaxModel == 1

\* tokens in one fragment of a streamed response
MaxFragLen == 2

\* the identifiers a query can hash to (the source keeps 12 hex digits)
HashSpace == 5

\* extraction requests the server accepts in a run
MaxRequests == 2

\* files found in saved/ that save_query did not write
MaxFiles == 2

VARIABLES
    env_key,          \* os.getenv("GEMINI_API_KEY")
    env_project,      \* os.getenv("GOOGLE_CLOUD_PROJECT")
    request_api_key,  \* the ContextVar: its value in each request's context
    cpc,              \* where each request is in its credential handling
    ckind,            \* "request" (an endpoint's) | "direct" (a caller of init_llm_client)
    hdr,              \* x_api_key
    body,             \* req.api_key
    api_key,          \* the endpoint's local api_key
    call,             \* the arguments of the init_llm_client call
    client,           \* what init_llm_client returned or raised
    carrivals         \* requests accepted so far

credVars == <<env_key, env_project, request_api_key, cpc, ckind, hdr, body,
              api_key, call, client, carrivals>>

(***************************************************************************)
(* src/argmap/llm.py: the request-scoped key.                              *)
(***************************************************************************)
\* The mutant: one process-wide variable instead of a context-local one.
set_request_api_key_global(c, r, k) == [q \in DOMAIN c |-> k]

\* _request_api_key.set(api_key): changes the calling context alone.
set_request_api_key(c, r, k) == [c EXCEPT ![r] = k]

\* _request_api_key.get(); the variable has a default, so LookupError never happens.
get_request_api_key(c, r) == c[r]

\* the ContextVar's default
RequestKeyDefault == NoneV

LocationDefault == StrV(<<"us-central1">>)

NoClient == [kind |-> "none", key |-> NoneV, project |-> NoneV, location |-> NoneV]

Raised(e) == [kind |-> e, key |-> NoneV, project |-> NoneV, location |-> NoneV]

\* The mutant: the environment default is consulted before the request key.
init_llm_client_envfirst(a_key, a_project, a_location, required, reqkey, ekey, eproject, fails) ==
    LET gemini_api_key == PyOr(PyOr(a_key, ekey), reqkey)
        google_cloud_project == PyOr(a_project, eproject)
        google_cloud_location == PyOr(a_location, LocationDefault)
    IN  IF Truthy(gemini_api_key)
        THEN IF fails
             THEN IF required THEN Raised("LLMConfigurationError") ELSE NoClient
             ELSE [kind |-> "api_key", key |-> gemini_api_key, project |-> NoneV,
                   location |-> NoneV]
        ELSE IF Truthy(google_cloud_project)
        THEN IF fails
             THEN IF required THEN Raised("LLMConfigurationError") ELSE NoClient
             ELSE [kind |-> "vertex", key |-> NoneV, project |-> google_cloud_project,
                   location |-> google_cloud_location]
        ELSE IF required THEN Raised("LLMNotConfigured") ELSE NoClient

\* init_llm_client.  reqkey is get_request_api_key() in the caller's context,
\* ekey and eproject the two environment variables; fails says whether the
\* genai.Client constructor throws.
init_llm_client(a_key, a_project, a_location, required, reqkey, ekey, eproject, fails) ==
    LET gemini_api_key == PyOr(PyOr(a_key, reqkey), ekey)
        google_cloud_project == PyOr(a_project, eproject)
        google_cloud_location == PyOr(a_location, LocationDefault)
    IN  IF Truthy(gemini_api_key)
        THEN IF fails
             THEN IF required THEN Raised("LLMConfigurationError") ELSE NoClient
             ELSE [kind |-> "api_key", key |-> gemini_api_key, project |-> NoneV,
                   location |-> NoneV]
        ELSE IF Truthy(google_cloud_project)
        THEN IF fails
             THEN IF required THEN Raised("LLMConfigurationError") ELSE NoClient
             ELSE [kind |-> "vertex", key |-> NoneV, project |-> google_cloud_project,
                   location |-> google_cloud_location]
        ELSE IF required THEN Raised("LLMNotConfigured") ELSE NoClient

\* the arguments generate_json and _cached_call pass: init_llm_client(required=True)
PipelineCall == [api_key |-> NoneV, project |-> NoneV, location |-> NoneV,
                 required |-> TRUE, fails |-> FALSE]

Calls == [api_key : KeyVals, project : ProjectVals, location : {NoneV},
          required : BOOLEAN, fails : BOOLEAN]

InitLlmClientOf(r) ==
    init_llm_client(call[r].api_key, call[r].project, call[r].location,
                    call[r].required, get_request_api_key(request_api_key, r),
                    env_key, env_project, call[r].fails)

(***************************************************************************)
(* Requests, as far as credentials go.  The server runs every request in a *)
(* context of its own, copied from its root context when the request       *)
(* arrives (one task per request; a sync endpoint and each step of a       *)
(* streamed body run in a worker thread under a copy of that context).     *)
(***************************************************************************)
CredIdle(r) ==
    /\ cpc[r] = "idle"
    /\ ckind[r] = "none"
    /\ hdr[r] = NoneV /\ body[r] = NoneV /\ api_key[r] = NoneV
    /\ call[r] = PipelineCall
    /\ client[r] = NoClient

\* A request arrives at /api/extract or /api/extract/stream; the two endpoints
\* and the two extraction functions handle the key with the same statements.
CArrive(r) ==
    /\ cpc[r] = "idle"
    /\ carrivals < MaxArrivals
    /\ \E h \in HeaderVals, b \in KeyVals :
          /\ ckind' = [ckind EXCEPT ![r] = "request"]
          /\ hdr' = [hdr EXCEPT ![r] = h]
          /\ body' = [body EXCEPT ![r] = b]
    /\ request_api_key' = [request_api_key EXCEPT ![r] = request_api_key[RootCtx]]
    /\ cpc' = [cpc EXCEPT ![r] = "endpoint"]
    /\ carrivals' = carrivals + 1
    /\ UNCHANGED <<env_key, env_project, api_key, call, client>>

\* server.py: api_key = x_api_key or req.api_key; if api_key: set_request_api_key(api_key)
Endpoint(r) ==
    /\ cpc[r] = "endpoint"
    /\ LET k == PyOr(hdr[r], body[r])
       IN  /\ api_key' = [api_key EXCEPT ![r] = k]
           /\ request_api_key' = IF Truthy(k)
                                 THEN set_request_api_key(request_api_key, r, k)
                                 ELSE request_api_key
    /\ cpc' = [cpc EXCEPT ![r] = "extract"]
    /\ UNCHANGED <<env_key, env_project, ckind, hdr, body, call, client, carrivals>>

\* extract.py: if api_key: set_request_api_key(api_key)
ExtractEntry(r) ==
    /\ cpc[r] = "extract"
    /\ request_api_key' = IF Truthy(api_key[r])
                          THEN set_request_api_key(request_api_key, r, api_key[r])
                          ELSE request_api_key
    /\ cpc' = [cpc EXCEPT ![r] = "init"]
    /\ UNCHANGED <<env_key, env_project, ckind, hdr, body, api_key, call, client, carrivals>>

\* generate_json / _cached_call / generate_json_stream: init_llm_client(required=True).
\* The constructor may throw.
InitClient(r) ==
    /\ cpc[r] = "init"
    /\ \E f \in BOOLEAN :
          /\ call' = [call EXCEPT ![r].fails = f]
          /\ client' = [client EXCEPT ![r] =
                init_llm_client(call[r].api_key, call[r].project, call[r].location,
                                call[r].required,
                                get_request_api_key(request_api_key, r),
                                env_key, env_project, f)]
    /\ cpc' = [cpc EXCEPT ![r] = "done"]
    /\ UNCHANGED <<env_key, env_project, request_api_key, ckind, hdr, body, api_key, carrivals>>

\* The request ends; its context is dropped with it.
CFinish(r) ==
    /\ cpc[r] = "done"
    /\ cpc' = [cpc EXCEPT ![r] = "idle"]
    /\ ckind' = [ckind EXCEPT ![r] = "none"]
    /\ hdr' = [hdr EXCEPT ![r] = NoneV]
    /\ body' = [body EXCEPT ![r] = NoneV]
    /\ api_key' = [api_key EXCEPT ![r] = NoneV]
    /\ call' = [call EXCEPT ![r] = PipelineCall]
    /\ client' = [client EXCEPT ![r] = NoClient]
    /\ request_api_key' = [request_api_key EXCEPT ![r] = request_api_key[RootCtx]]
    /\ UNCHANGED <<env_key, env_project, carrivals>>

\* A direct caller of init_llm_client, with arguments of its choice, in a
\* context where any key may have been set.
DirectInit(r) ==
    /\ cpc[r] = "direct"
    /\ client' = [client EXCEPT ![r] = InitLlmClientOf(r)]
    /\ cpc' = [cpc EXCEPT ![r] = "done"]
    /\ UNCHANGED <<env_key, env_project, request_api_key, ckind, hdr, body, api_key,
                   call, carrivals>>

(***************************************************************************)
(* src/argmap/llm.py: generate_content and generate_json.                  *)
(***************************************************************************)
VARIABLES
    CACHE_LLM,      \* os.getenv("CACHE_LLM") is not None
    memory,         \* joblib's store of _cached_call: arguments -> returned value
    lpc,            \* where each caller of generate_json is
    largs,          \* its (contents, model, config)
    lresp,          \* the backend's response to its invocation, if it made one
    lhit,           \* whether _cached_call was answered from the store
    lresult,        \* what generate_json returned or raised
    backend_calls,  \* per arguments: invocations of the backend so far
    lcalls,         \* calls of generate_json so far
    overlapped      \* history: two calls of generate_json were ever in flight at once

llmVars == <<CACHE_LLM, memory, lpc, largs, lresp, lhit, lresult, backend_calls,
             lcalls, overlapped>>

LLM_MODEL == "gemini-2.5-flash"

LlmModels == {LLM_MODEL}

\* generate_json's temperature default
DefaultTemperature == 0

\* _cached_call's arguments (contents, m, cfg_repr): the key of the store
LlmArgs == [contents : 1..MaxPrompt, model : LlmModels, temperature : {DefaultTemperature}]

NoArgs == [contents |-> 0, model |-> LLM_MODEL, temperature |-> DefaultTemperature]

\* What the backend can answer: an object whose text and output_text
\* attributes hold a string, hold None (or are missing), or hold something
\* that is no string.
RespTexts == {NoneV, EmptyStr, StrV(<<"json">>), IntV(5), IntV(0)}

RespOutputTexts == {NoneV, StrV(<<"alt">>)}

Resps == [text : RespTexts, output_text : RespOutputTexts]

NoResp == [text |-> NoneV, output_text |-> NoneV]

\* getattr(resp, "text", None) or getattr(resp, "output_text", None) or ""
TextOf(resp) == PyOr(PyOr(resp.text, resp.output_text), EmptyStr)

\* class Resp: only a text attribute
Resp(t) == [text |-> t, output_text |-> NoneV]

Returned(t) == [kind |-> "ok", text |-> t]

Failed(e) == [kind |-> e, text |-> NoneV]

NoResult == [kind |-> "none", text |-> NoneV]

\* The mutant: the isinstance check is missing.
generate_json_tail_unchecked(resp) == Returned(TextOf(resp))

\* generate_json, from the response of generate_content on: lines 133-138.
generate_json_tail(resp) ==
    LET text == TextOf(resp)
    IN  IF ~IsStr(text) THEN Failed("LLMCallError") ELSE Returned(text)

\* The mutant: the store is never consulted.
cache_hit_never(m, a) == FALSE

\* joblib's lookup: the arguments have a stored value
cache_hit(m, a) == a \in DOMAIN m

\* joblib's store after the call returned
cache_store(m, a, v) == [x \in DOMAIN m \cup {a} |-> IF x = a THEN v ELSE m[x]]

LInFlight(c) == lpc[c] \notin {"idle", "done"}

\* generate_json is called (lines 126-131).  Without cache the client is made
\* here and the call may end at once with a configuration error.
LCall(c) ==
    /\ lpc[c] = "idle"
    /\ lcalls < MaxCalls
    /\ lcalls' = lcalls + 1
    /\ \E a \in LlmArgs : largs' = [largs EXCEPT ![c] = a]
    /\ overlapped' = (overlapped \/ \E d \in Reqs \ {c} : LInFlight(d))
    /\ \/ /\ CACHE_LLM
          /\ lpc' = [lpc EXCEPT ![c] = "lookup"]
          /\ UNCHANGED lresult
       \/ /\ ~CACHE_LLM
          /\ lpc' = [lpc EXCEPT ![c] = "invoke"]
          /\ UNCHANGED lresult
       \/ /\ ~CACHE_LLM
          /\ \E e \in {"LLMNotConfigured", "LLMConfigurationError"} :
                lresult' = [lresult EXCEPT ![c] = Failed(e)]
          /\ lpc' = [lpc EXCEPT ![c] = "done"]
    /\ UNCHANGED <<CACHE_LLM, memory, lresp, lhit, backend_calls>>

\* generate_content without cache (line 101), then the rest of generate_json.
LInvoke(c) ==
    /\ lpc[c] = "invoke"
    /\ backend_calls' = [backend_calls EXCEPT ![largs[c]] = @ + 1]
    /\ \/ \E resp \in Resps :
             /\ lresp' = [lresp EXCEPT ![c] = resp]
             /\ lresult' = [lresult EXCEPT ![c] = generate_json_tail(resp)]
       \/ /\ lresult' = [lresult EXCEPT ![c] = Failed("BackendError")]
          /\ UNCHANGED lresp
    /\ lpc' = [lpc EXCEPT ![c] = "done"]
    /\ UNCHANGED <<CACHE_LLM, memory, largs, lhit, lcalls, overlapped>>

\* _cached_call(contents, model, config) is called: joblib looks the arguments
\* up; a stored value is returned at once and wrapped in Resp (lines 109-115).
LLookup(c) ==
    /\ lpc[c] = "lookup"
    /\ IF cache_hit(memory, largs[c])
       THEN /\ lhit' = [lhit EXCEPT ![c] = TRUE]
            /\ lresult' = [lresult EXCEPT ![c] = generate_json_tail(Resp(memory[largs[c]]))]
            /\ lpc' = [lpc EXCEPT ![c] = "done"]
       ELSE /\ lpc' = [lpc EXCEPT ![c] = "cached_call"]
            /\ UNCHANGED <<lhit, lresult>>
    /\ UNCHANGED <<CACHE_LLM, memory, largs, lresp, backend_calls, lcalls, overlapped>>

\* The body of _cached_call runs (lines 105-107): the client is made, the backend
\* invoked, and joblib stores what the body returned.  An exception stores nothing.
LCachedCall(c) ==
    /\ lpc[c] = "cached_call"
    /\ \/ /\ \E e \in {"LLMNotConfigured", "LLMConfigurationError"} :
                lresult' = [lresult EXCEPT ![c] = Failed(e)]
          /\ UNCHANGED <<memory, lresp, backend_calls>>
       \/ /\ backend_calls' = [backend_calls EXCEPT ![largs[c]] = @ + 1]
          /\ lresult' = [lresult EXCEPT ![c] = Failed("BackendError")]
          /\ UNCHANGED <<memory, lresp>>
       \/ /\ backend_calls' = [backend_calls EXCEPT ![largs[c]] = @ + 1]
          /\ \E resp \in Resps :
                /\ lresp' = [lresp EXCEPT ![c] = resp]
                /\ memory' = cache_store(memory, largs[c], TextOf(resp))
                /\ lresult' = [lresult EXCEPT ![c] = generate_json_tail(Resp(TextOf(resp)))]
    /\ lpc' = [lpc EXCEPT ![c] = "done"]
    /\ UNCHANGED <<CACHE_LLM, largs, lhit, lcalls, overlapped>>

\* The caller has its answer.
LReturn(c) ==
    /\ lpc[c] = "done"
    /\ lpc' = [lpc EXCEPT ![c] = "idle"]
    /\ largs' = [largs EXCEPT ![c] = NoArgs]
    /\ lresp' = [lresp EXCEPT ![c] = NoResp]
    /\ lhit' = [lhit EXCEPT ![c] = FALSE]
    /\ lresult' = [lresult EXCEPT ![c] = NoResult]
    /\ UNCHANGED <<CACHE_LLM, memory, backend_calls, lcalls, overlapped>>


(***************************************************************************)
(* The model's output as text.  A response text is a sequence of tokens:   *)
(* "{" and "}" delimit a JSON object, each token between them is one       *)
(* member of the object ("nodes": [...], "edges": [...], "summary": ...),  *)
(* and "[]" is a JSON document that is no object.  Any other sequence is   *)
(* not JSON.                                                               *)
(***************************************************************************)
GoodNode == [id |-> "n1", content |-> "c1", type |-> "premise"]

GoodEdge == [source |-> "n1", target |-> "n1", type |-> "supports"]

\* the member each member token stands for
Member(tok) ==
    CASE tok = "N"         -> [key |-> "nodes", value |-> <<GoodNode>>]
      [] tok = "N-id"      -> [key |-> "nodes",
                               value |-> <<GoodNode, [content |-> "c2", type |-> "premise"]>>]
      [] tok = "N-content" -> [key |-> "nodes", value |-> <<[id |-> "n1", type |-> "premise"]>>]
      [] tok = "N-type"    -> [key |-> "nodes", value |-> <<[id |-> "n1", content |-> "c1"]>>]
      [] tok = "E"         -> [key |-> "edges", value |-> <<GoodEdge>>]
      [] tok = "E-source"  -> [key |-> "edges", value |-> <<[target |-> "n1", type |-> "supports"]>>]
      [] tok = "E-target"  -> [key |-> "edges",
                               value |-> <<GoodEdge, [source |-> "n1", type |-> "supports"]>>]
      [] tok = "E-type"    -> [key |-> "edges", value |-> <<[source |-> "n1", target |-> "n1"]>>]
      [] tok = "S"         -> [key |-> "summary", value |-> StrV(<<"summary">>)]

NodeTokens == {"N", "N-id", "N-content", "N-type"}

EdgeTokens == {"E", "E-source", "E-target", "E-type"}

MemberTokens == NodeTokens \cup EdgeTokens \cup {"S"}

IsObjectText(t) ==
    /\ Len(t) >= 2
    /\ t[1] = "{"
    /\ t[Len(t)] = "}"
    /\ \A i \in 2..(Len(t) - 1) : t[i] \in MemberTokens

IsListText(t) == t = <<"[]">>

\* json.loads(t) does not raise JSONDecodeError
IsJson(t) == IsObjectText(t) \/ IsListText(t)

\* json.loads(t) for a text that is JSON: a dict (a later member replaces an
\* earlier one with the same key) or a list
Loads(t) ==
    IF IsListText(t)
    THEN [isdict |-> FALSE, m |-> <<>>]
    ELSE LET idx == 2..(Len(t) - 1)
             keys == {Member(t[i]).key : i \in idx}
             last(k) == CHOOSE i \in idx :
                           /\ Member(t[i]).key = k
                           /\ \A j \in idx : Member(t[j]).key = k => j <= i
         IN  [isdict |-> TRUE, m |-> [k \in keys |-> Member(t[last(k)]).value]]

\* The mutant: an absent key is taken for a list holding one empty entry.
DictGet_entry(d, k, default) == IF k \in DOMAIN d THEN d[k] ELSE <<[absent |-> k]>>

\* d.get(k, default)
DictGet(d, k, default) == IF k \in DOMAIN d THEN d[k] ELSE default

(***************************************************************************)
(* src/argmap/schema.py and the conversion of src/argmap/extract.py.       *)
(***************************************************************************)
NoExc == [exc |-> "none", msg |-> ""]

Exc(e, m) == [exc |-> e, msg |-> m]

NoMap == [version |-> "none", source_text |-> 0, nodes |-> <<>>, edges |-> <<>>,
          summary |-> NoneV, key_tensions |-> NoneV]

NodeFields == <<"id", "content", "type">>

EdgeFields == <<"source", "target", "type">>

\* Node(id=node_data["id"], content=..., type=..., rhetorical_force=node_data.get(...), span=span)
Node(node_data) ==
    [id |-> node_data["id"], content |-> node_data["content"], type |-> node_data["type"],
     rhetorical_force |-> NoneV, span |-> NoneV]

\* Edge(source=edge_data["source"], target=..., type=..., explanation=edge_data.get(...))
Edge(edge_data) ==
    [source |-> edge_data["source"], target |-> edge_data["target"],
     type |-> edge_data["type"], explanation |-> NoneV]

\* the entries of a list that lack one of the fields subscripted
Lacking(entries, fields) ==
    {i \in 1..Len(entries) : \E f \in 1..Len(fields) : fields[f] \notin DOMAIN entries[i]}

\* The KeyError the loop over entries raises: the first entry lacking a field,
\* and the first field it lacks in the order the constructor call reads them.
FirstKeyError(entries, fields) ==
    LET i == CHOOSE x \in Lacking(entries, fields) :
                 \A y \in Lacking(entries, fields) : x <= y
        f == CHOOSE x \in 1..Len(fields) :
                 /\ fields[x] \notin DOMAIN entries[i]
                 /\ \A y \in 1..Len(fields) : fields[y] \notin DOMAIN entries[i] => x <= y
    IN  Exc("KeyError", fields[f])

\* The conversion of parsed data (extract.py:50-79, server.py:243-272):
\* nodes, then edges, then the ArgumentMap.
Convert(data, source_text) ==
    IF ~data.isdict
    THEN [exc |-> Exc("AttributeError", "get"), map |-> NoMap]
    ELSE LET nodes == DictGet(data.m, "nodes", <<>>)
             edges == DictGet(data.m, "edges", <<>>)
         IN  IF Lacking(nodes, NodeFields) # {}
             THEN [exc |-> FirstKeyError(nodes, NodeFields), map |-> NoMap]
             ELSE IF Lacking(edges, EdgeFields) # {}
             THEN [exc |-> FirstKeyError(edges, EdgeFields), map |-> NoMap]
             ELSE [exc |-> NoExc,
                   map |-> [version |-> "1.0",
                            source_text |-> source_text,
                            nodes |-> [i \in 1..Len(nodes) |-> Node(nodes[i])],
                            edges |-> [i \in 1..Len(edges) |-> Edge(edges[i])],
                            summary |-> DictGet(data.m, "summary", NoneV),
                            key_tensions |-> DictGet(data.m, "key_tensions", NoneV)]]

\* The mutant: text that does not parse is taken for an empty document.
ParseAndConvert_lenient(text, source_text) ==
    IF ~IsJson(text)
    THEN Convert([isdict |-> TRUE, m |-> <<>>], source_text)
    ELSE Convert(Loads(text), source_text)

\* extract_argument_map from the response text on (extract.py:44-79), and
\* extract_argument_map_stream from exhaustion on (extract.py:125-160).
ParseAndConvert(text, source_text) ==
    IF ~IsJson(text)
    THEN [exc |-> Exc("ValueError", "LLM returned invalid JSON"), map |-> NoMap]
    ELSE Convert(Loads(text), source_text)

\* The mutant: the new fragment goes in front.
Accumulate_front(acc, chunk) == chunk \o acc

\* full_response += chunk ; full_json += chunk
Accumulate(acc, chunk) == acc \o chunk

(***************************************************************************)
(* src/server.py: the store.                                               *)
(***************************************************************************)
NoHash == 0 - 1

HashIds == 0..(HashSpace - 1)

\* json.dumps(..., sort_keys=True) writes the keys in this order
SortedKeys == <<"model", "temperature", "text", "timestamp">>

\* json.dumps(d, sort_keys=True): the (key, value) pairs in key order
Dumps(d) ==
    LET ks == SelectSeq(SortedKeys, LAMBDA k : k \in DOMAIN d)
    IN  [i \in 1..Len(ks) |-> <<ks[i], d[ks[i]]>>]

KeyCode(k) == CHOOSE i \in 1..Len(SortedKeys) : SortedKeys[i] = k

\* hashlib.sha256(s.encode()).hexdigest()[:12]: a fixed function of the
\* serialization into the identifier space, scaled down
RECURSIVE DigestFrom(_, _)
DigestFrom(str, h) ==
    IF str = <<>> THEN h
    ELSE DigestFrom(Tail(str), (h * 31 + KeyCode(Head(str)[1]) * 7 + Head(str)[2]) % HashSpace)

Digest(str) == DigestFrom(str, 1)

\* The mutant: the whole record, timestamp included, is hashed.
HashedPart_all(query_data) == query_data

\* {k: v for k, v in query_data.items() if k != "timestamp"}
HashedPart(query_data) ==
    [k \in DOMAIN query_data \ {"timestamp"} |-> query_data[k]]

\* save_query's query_data and query_hash for a request at time now
QueryData(rq, now) ==
    [text |-> rq.text, temperature |-> rq.temperature, model |-> rq.model, timestamp |-> now]

QueryHash(query_data) == Digest(Dumps(HashedPart(query_data)))

\* open(file_path, 'w'); json.dump(...): the record under that name is replaced
WriteFile(dir, name, content) ==
    [x \in DOMAIN dir \cup {name} |-> IF x = name THEN content ELSE dir[x]]

\* the except clauses of the two endpoints, in order
ErrorClass(e) ==
    IF e = "LLMNotConfigured" THEN "LLM not configured"
    ELSE IF e = "LLMConfigurationError" THEN "LLM configuration error"
    ELSE IF e \in {"ValueError", "JSONDecodeError", "ValidationError"} THEN "Extraction error"
    ELSE "Unexpected error"

\* The mutant: a successful extraction goes straight to save_results.
AfterExtract_results(exc) == IF exc = NoExc THEN "save_results" ELSE "done"

\* The mutant: a failed extraction goes on to the save.
AfterExtract_always(exc) == "save_query"

\* the try block: an exception leaves it for the except clauses, skipping the saves
AfterExtract(exc) == IF exc = NoExc THEN "save_query" ELSE "done"

\* The mutant: the results lookup reads the queries directory.
LookupDir_saved(ns, qs, rs) == qs

\* Path("saved") for get_saved_query, Path("saved-results") for get_saved_results
LookupDir(ns, qs, rs) == IF ns = "saved" THEN qs ELSE rs

(***************************************************************************)
(* src/server.py: the two extraction endpoints and the lookups.            *)
(***************************************************************************)
VARIABLES
    queries,        \* the directory saved/: identifier -> saved query
    results,        \* the directory saved-results/: identifier -> saved response
    clock,          \* datetime.now()
    spc,            \* where each request is
    skind,          \* "blocking" (/api/extract) | "stream" (/api/extract/stream)
    req,            \* the ExtractRequest
    pending,        \* stream: what the backend has yet to emit
    emitted,        \* stream: the fragments the backend emitted, in order
    exhausted,      \* the model's whole text is in hand
    response_text,  \* extract.py: response_text (blocking), full_response (stream)
    full_json,      \* server.py: generate()'s accumulator
    chunks,         \* stream: the contents of the chunk events sent to the caller
    argument_map,   \* what extract_argument_map returned
    saved_hash,     \* what save_query returned
    reply,          \* the response, or the terminal event of the stream
    sarrivals,      \* requests accepted so far
    got             \* the answer to the last lookup, until the caller takes it

srvVars == <<queries, results, clock, spc, skind, req, pending, emitted, exhausted,
             response_text, full_json, chunks, argument_map, saved_hash, reply,
             sarrivals, got>>

Requests == [text : 1..MaxText, temperature : {DefaultTemperature}, model : 0..MaxModel,
             api_key : {0, 1}]

NoRequest == [text |-> 0, temperature |-> DefaultTemperature, model |-> 0, api_key |-> 0]

\* {text, temperature, model} of a request or a saved query
Content(x) == <<x.text, x.temperature, x.model>>

NoReply == [success |-> FALSE, result |-> NoMap, error |-> "", exc |-> NoExc,
            saved_hash |-> NoHash]

\* ExtractResponse(success=False, error=f"<class>: {e}") / the error event
ErrorReply(exc) ==
    [success |-> FALSE, result |-> NoMap, error |-> ErrorClass(exc.exc), exc |-> exc,
     saved_hash |-> NoHash]

\* ExtractResponse(success=True, result=argument_map.model_dump(), saved_hash=saved_hash)
ExtractResponse(amap, h) ==
    [success |-> TRUE, result |-> amap, error |-> "", exc |-> NoExc, saved_hash |-> h]

NoGot == [ns |-> "none", id |-> NoHash, status |-> "none"]

\* requests with no model and no key of their own
PlainRequests == {rq \in Requests : rq.model = 0 /\ rq.api_key = 0}

\* the same request, sent again and again
RepeatedRequests == {rq \in PlainRequests : rq.text = 1}

\* What the backend answers in the runs of Spec: a complete document, one cut
\* short, one with a node lacking its id, and nothing at all.
CoreDocs == {<<"{", "N", "}">>, <<"{", "N">>, <<"{", "N-id", "}">>, <<>>}

\* What the backend answers in the runs of SpecStore.
StoreDocs == {<<"{", "N", "}">>, <<"{">>}

\* What the backend answers in the runs of SpecSerial.
AllDocs ==
    {<<>>, <<"[]">>, <<"{">>, <<"{", "N">>, <<"N", "}">>, <<"}", "{">>, <<"{", "}">>,
     <<"{", "S", "}">>, <<"{", "N", "N-id", "}">>, <<"{", "N-id", "N", "}">>}
    \cup {<<"{", n, "}">> : n \in NodeTokens}
    \cup {<<"{", e, "}">> : e \in EdgeTokens}
    \cup {<<"{", n, e, "}">> : n \in {"N", "N-type"}, e \in EdgeTokens}

Min(a, b) == IF a <= b THEN a ELSE b

\* A request arrives at one of the two extraction endpoints.
SArrive(r, rqs) ==
    /\ spc[r] = "idle"
    /\ sarrivals < MaxRequests
    /\ sarrivals' = sarrivals + 1
    /\ \E rq \in rqs : req' = [req EXCEPT ![r] = rq]
    /\ \E k \in {"blocking", "stream"} :
          /\ skind' = [skind EXCEPT ![r] = k]
          /\ spc' = [spc EXCEPT ![r] = IF k = "blocking" THEN "extract" ELSE "open"]
    /\ UNCHANGED <<queries, results, clock, pending, emitted, exhausted, response_text,
                   full_json, chunks, argument_map, saved_hash, reply, got>>

\* The request ends in the except clauses (or, streaming, with an error event).
Fails(r, exc) ==
    /\ reply' = [reply EXCEPT ![r] = ErrorReply(exc)]
    /\ spc' = [spc EXCEPT ![r] = "done"]

\* /api/extract: extract_argument_map(req.text, ...) (server.py:112-117), that is
\* generate_json, then the parse and the conversion (extract.py:42-79).
BlockingExtract(r, docs) ==
    /\ spc[r] = "extract"
    /\ \/ /\ \E e \in {"LLMNotConfigured", "LLMConfigurationError", "BackendError"} :
                Fails(r, Exc(e, ""))
          /\ UNCHANGED <<exhausted, response_text, argument_map>>
       \/ \E resp \in {Resp(StrV(d)) : d \in docs} \cup {Resp(NoneV), Resp(IntV(5))} :
             LET text == generate_json_tail(resp)
             IN  IF text.kind # "ok"
                 THEN /\ Fails(r, Exc(text.kind, ""))
                      /\ UNCHANGED <<exhausted, response_text, argument_map>>
                 ELSE LET out == ParseAndConvert(text.text.s, req[r].text)
                      IN  /\ exhausted' = [exhausted EXCEPT ![r] = TRUE]
                          /\ response_text' = [response_text EXCEPT ![r] = text.text.s]
                          /\ argument_map' = [argument_map EXCEPT ![r] = out.map]
                          /\ spc' = [spc EXCEPT ![r] = AfterExtract(out.exc)]
                          /\ reply' = [reply EXCEPT ![r] =
                                IF out.exc = NoExc THEN NoReply ELSE ErrorReply(out.exc)]
    /\ UNCHANGED <<queries, results, clock, skind, req, pending, emitted, full_json,
                   chunks, saved_hash, sarrivals, got>>

\* /api/extract/stream, the first step of generate(): the stream is opened.
\* generate_json_stream makes the client and starts the backend call.
StreamOpen(r, docs) ==
    /\ spc[r] = "open"
    /\ \/ /\ \E e \in {"LLMNotConfigured", "LLMConfigurationError", "BackendError"} :
                Fails(r, Exc(e, ""))
          /\ UNCHANGED pending
       \/ /\ \E d \in docs : pending' = [pending EXCEPT ![r] = d]
          /\ spc' = [spc EXCEPT ![r] = "streaming"]
          /\ UNCHANGED reply
    /\ UNCHANGED <<queries, results, clock, skind, req, emitted, exhausted, response_text,
                   full_json, chunks, argument_map, saved_hash, sarrivals, got>>

\* generate_json_stream(**kwargs), which extract.py imports from llm.py: a
\* lazy, finite sequence of string fragments whose concatenation is the JSON
\* string.  Its next fragment is the first k tokens of what is left.
generate_json_stream(rest, k) == SubSeq(rest, 1, k)

\* The backend emits its next fragment; extract_argument_map_stream appends
\* it to full_response and yields it (extract.py:121-123); generate() appends
\* it to full_json and sends it as a chunk event (server.py:231-234).
StreamChunk(r) ==
    /\ spc[r] = "streaming"
    /\ pending[r] # <<>>
    /\ \E k \in 1..Min(MaxFragLen, Len(pending[r])) :
          LET chunk == generate_json_stream(pending[r], k)
          IN  /\ pending' = [pending EXCEPT ![r] = SubSeq(pending[r], k + 1, Len(pending[r]))]
              /\ emitted' = [emitted EXCEPT ![r] = Append(emitted[r], chunk)]
              /\ response_text' = [response_text EXCEPT ![r] = Accumulate(response_text[r], chunk)]
              /\ full_json' = [full_json EXCEPT ![r] = Accumulate(full_json[r], chunk)]
              /\ chunks' = [chunks EXCEPT ![r] = Append(chunks[r], chunk)]
    /\ UNCHANGED <<queries, results, clock, spc, skind, req, exhausted, argument_map,
                   saved_hash, reply, sarrivals, got>>

\* The backend call fails in mid-stream.
StreamBreaks(r) ==
    /\ spc[r] = "streaming"
    /\ pending[r] # <<>>
    /\ Fails(r, Exc("BackendError", ""))
    /\ UNCHANGED <<queries, results, clock, skind, req, pending, emitted, exhausted,
                   response_text, full_json, chunks, argument_map, saved_hash, sarrivals, got>>

\* The backend's stream is exhausted: extract_argument_map_stream parses and
\* converts full_response (extract.py:125-160); its return value is dropped by
\* the for loop of generate(), which then parses full_json (server.py:237).
StreamEnd(r) ==
    /\ spc[r] = "streaming"
    /\ pending[r] = <<>>
    /\ exhausted' = [exhausted EXCEPT ![r] = TRUE]
    /\ LET out == ParseAndConvert(response_text[r], req[r].text)
           exc == IF out.exc # NoExc THEN out.exc
                  ELSE IF ~IsJson(full_json[r]) THEN Exc("JSONDecodeError", "")
                  ELSE NoExc
       IN  /\ spc' = [spc EXCEPT ![r] = AfterExtract(exc)]
           /\ reply' = [reply EXCEPT ![r] = IF exc = NoExc THEN NoReply ELSE ErrorReply(exc)]
    /\ UNCHANGED <<queries, results, clock, skind, req, pending, emitted, response_text,
                   full_json, chunks, argument_map, saved_hash, sarrivals, got>>

\* The caller of the stream goes away: the suspended generator is closed,
\* either before it ever ran or at the yield of a chunk.  GeneratorExit is no
\* Exception, so no except clause of generate() runs.
Abandon(r) ==
    /\ \/ spc[r] = "open"
       \/ spc[r] = "streaming" /\ chunks[r] # <<>>
    /\ spc' = [spc EXCEPT ![r] = "abandoned"]
    /\ UNCHANGED <<queries, results, clock, skind, req, pending, emitted, exhausted,
                   response_text, full_json, chunks, argument_map, saved_hash, reply,
                   sarrivals, got>>

\* saved_hash = save_query(req) (server.py:120 and 240).
SaveQuery(r) ==
    /\ spc[r] = "save_query"
    /\ LET query_data == QueryData(req[r], clock)
           query_hash == QueryHash(query_data)
       IN  /\ queries' = WriteFile(queries, query_hash, query_data)
           /\ saved_hash' = [saved_hash EXCEPT ![r] = query_hash]
    /\ clock' = clock + 1
    /\ spc' = [spc EXCEPT ![r] = "save_results"]
    /\ UNCHANGED <<results, skind, req, pending, emitted, exhausted, response_text,
                   full_json, chunks, argument_map, reply, sarrivals, got>>

\* The response is built and saved (server.py:122-131); streaming, the nodes
\* and edges are first converted from the parsed full_json (server.py:243-284).
SaveResults(r) ==
    /\ spc[r] = "save_results"
    /\ LET out == IF skind[r] = "blocking"
                  THEN [exc |-> NoExc, map |-> argument_map[r]]
                  ELSE Convert(Loads(full_json[r]), req[r].text)
           response == ExtractResponse(out.map, saved_hash[r])
       IN  IF out.exc # NoExc
           THEN /\ reply' = [reply EXCEPT ![r] = ErrorReply(out.exc)]
                /\ UNCHANGED results
           ELSE /\ results' = WriteFile(results, saved_hash[r], response)
                /\ reply' = [reply EXCEPT ![r] = response]
    /\ spc' = [spc EXCEPT ![r] = "done"]
    /\ UNCHANGED <<queries, clock, skind, req, pending, emitted, exhausted, response_text,
                   full_json, chunks, argument_map, saved_hash, sarrivals, got>>

\* The request is over.
SFinish(r) ==
    /\ spc[r] \in {"done", "abandoned"}
    /\ spc' = [spc EXCEPT ![r] = "idle"]
    /\ skind' = [skind EXCEPT ![r] = "none"]
    /\ req' = [req EXCEPT ![r] = NoRequest]
    /\ pending' = [pending EXCEPT ![r] = <<>>]
    /\ emitted' = [emitted EXCEPT ![r] = <<>>]
    /\ exhausted' = [exhausted EXCEPT ![r] = FALSE]
    /\ response_text' = [response_text EXCEPT ![r] = <<>>]
    /\ full_json' = [full_json EXCEPT ![r] = <<>>]
    /\ chunks' = [chunks EXCEPT ![r] = <<>>]
    /\ argument_map' = [argument_map EXCEPT ![r] = NoMap]
    /\ saved_hash' = [saved_hash EXCEPT ![r] = NoHash]
    /\ reply' = [reply EXCEPT ![r] = NoReply]
    /\ UNCHANGED <<queries, results, clock, sarrivals, got>>

\* GET /api/saved/{query_hash} and GET /api/results/{query_hash}
\* (server.py:182-201): 404 when the file does not exist.
Lookup(ns, h) ==
    /\ got = NoGot
    /\ got' = [ns |-> ns, id |-> h,
               status |-> IF h \in DOMAIN LookupDir(ns, queries, results)
                          THEN "ok" ELSE "not found"]
    /\ UNCHANGED <<queries, results, clock, spc, skind, req, pending, emitted, exhausted,
                   response_text, full_json, chunks, argument_map, saved_hash, reply,
                   sarrivals>>

GetSavedQuery(h) == Lookup("saved", h)

GetSavedResults(h) == Lookup("saved-results", h)

\* The caller has the answer to its lookup.
TakeAnswer ==
    /\ got # NoGot
    /\ got' = NoGot
    /\ UNCHANGED <<queries, results, clock, spc, skind, req, pending, emitted, exhausted,
                   response_text, full_json, chunks, argument_map, saved_hash, reply,
                   sarrivals>>

(***************************************************************************)
(* src/server.py: list_saved_queries.                                      *)
(***************************************************************************)
VARIABLES
    listing         \* the answer to the last GET /api/saved, until the caller takes it

lstVars == <<listing>>

\* Files of saved/ that save_query did not write.
\* open(file_path) raises OSError
Unreadable == [form |-> "unreadable"]

\* json.load(f) raises JSONDecodeError
NotJson == [form |-> "not json"]

\* json.load(f) gives a list, on which data.get raises AttributeError
NotObject == [form |-> "list"]

\* a JSON object with no "timestamp"
Untimed(t) == [text |-> t, temperature |-> DefaultTemperature, model |-> 0]

ForeignFiles == {Unreadable, NotJson, NotObject} \cup {Untimed(t) : t \in 1..MaxText}

\* what saved/ can hold when the server starts: at most MaxFiles such files
StoreContents ==
    UNION {[d -> ForeignFiles] : d \in {e \in SUBSET HashIds : Cardinality(e) <= MaxFiles}}

\* the except Exception: continue of the loop
Skipped(f) == "form" \in DOMAIN f

\* None, as data.get("timestamp") gives it for a record without one
Absent == 0 - 1

\* queries.append({"hash": file_path.stem, "text": data.get("text", ""), ...})
Preview(h, data) ==
    [hash |-> h,
     text |-> DictGet(data, "text", 0),
     timestamp |-> DictGet(data, "timestamp", Absent),
     temperature |-> DictGet(data, "temperature", Absent),
     model |-> DictGet(data, "model", 0)]

\* the previews the loop over saved/*.json collects
Previews(dir) == {Preview(h, dir[h]) : h \in {g \in DOMAIN dir : ~Skipped(dir[g])}}

\* queries.sort(key=lambda x: x.get("timestamp", ""), reverse=True): every
\* preview has the key "timestamp", so the default "" is never used and a
\* record without timestamp sorts by None; with two or more previews sort
\* compares None with another key and raises TypeError.
SortRaises(ps) == Cardinality(ps) >= 2 /\ \E p \in ps : p.timestamp = Absent

NewestFirst(seq) == \A i \in 1..(Len(seq) - 1) : seq[i].timestamp >= seq[i + 1].timestamp

\* the orders the sort can leave the previews in (glob's order is arbitrary
\* and the sort is stable)
Orderings(ps) ==
    {seq \in [1..Cardinality(ps) -> ps] :
        /\ \A i, j \in 1..Cardinality(ps) : seq[i] = seq[j] => i = j
        /\ NewestFirst(seq)}

NoListing == [status |-> "none", queries |-> <<>>]

\* list_saved_queries(): what it can return, or the exception that ends it
list_saved_queries(dir) ==
    IF SortRaises(Previews(dir))
    THEN {[status |-> "TypeError", queries |-> <<>>]}
    ELSE {[status |-> "ok", queries |-> seq] : seq \in Orderings(Previews(dir))}

\* GET /api/saved
ListSavedQueries ==
    /\ listing = NoListing
    /\ listing' \in list_saved_queries(queries)
    /\ UNCHANGED srvVars

\* The caller has the listing (or the failure).
TakeListing ==
    /\ listing # NoListing
    /\ listing' = NoListing
    /\ UNCHANGED srvVars

(***************************************************************************)
(* The server process dies and is started again: every request in flight   *)
(* ends where it is, and the two directories keep what was written.        *)
(***************************************************************************)
\* no request is in flight after the restart
Restart ==
    /\ spc' = [r \in Reqs |-> "idle"]
    /\ skind' = [r \in Reqs |-> "none"]
    /\ req' = [r \in Reqs |-> NoRequest]
    /\ pending' = [r \in Reqs |-> <<>>]
    /\ emitted' = [r \in Reqs |-> <<>>]
    /\ exhausted' = [r \in Reqs |-> FALSE]
    /\ response_text' = [r \in Reqs |-> <<>>]
    /\ full_json' = [r \in Reqs |-> <<>>]
    /\ chunks' = [r \in Reqs |-> <<>>]
    /\ argument_map' = [r \in Reqs |-> NoMap]
    /\ saved_hash' = [r \in Reqs |-> NoHash]
    /\ reply' = [r \in Reqs |-> NoReply]
    /\ UNCHANGED <<clock, sarrivals, got>>

\* The process dies between two steps of its requests.
Crash ==
    /\ \E r \in Reqs : spc[r] # "idle"
    /\ Restart
    /\ UNCHANGED <<queries, results>>

\* The process dies inside save_query, after open(file_path, 'w') and before
\* json.dump has written the record: the file is there, cut short.
CrashInSaveQuery(r) ==
    /\ spc[r] = "save_query"
    /\ queries' = WriteFile(queries, QueryHash(QueryData(req[r], clock)), NotJson)
    /\ Restart
    /\ UNCHANGED results

\* The same inside save_results.
CrashInSaveResults(r) ==
    /\ spc[r] = "save_results"
    /\ results' = WriteFile(results, saved_hash[r], NotJson)
    /\ Restart
    /\ UNCHANGED queries

(***************************************************************************)
(* The specifications.                                                     *)
(***************************************************************************)
vars == <<credVars, llmVars, srvVars, lstVars>>

\* what an action of one part leaves alone
CredStep == UNCHANGED <<llmVars, srvVars, lstVars>>

LLMStep == UNCHANGED <<credVars, srvVars, lstVars>>

SrvStep == UNCHANGED <<credVars, llmVars, lstVars>>

LstStep == UNCHANGED <<credVars, llmVars>>

SrvQuiet ==
    /\ queries = <<>>
    /\ results = <<>>
    /\ clock = 0
    /\ spc = [r \in Reqs |-> "idle"]
    /\ skind = [r \in Reqs |-> "none"]
    /\ req = [r \in Reqs |-> NoRequest]
    /\ pending = [r \in Reqs |-> <<>>]
    /\ emitted = [r \in Reqs |-> <<>>]
    /\ exhausted = [r \in Reqs |-> FALSE]
    /\ response_text = [r \in Reqs |-> <<>>]
    /\ full_json = [r \in Reqs |-> <<>>]
    /\ chunks = [r \in Reqs |-> <<>>]
    /\ argument_map = [r \in Reqs |-> NoMap]
    /\ saved_hash = [r \in Reqs |-> NoHash]
    /\ reply = [r \in Reqs |-> NoReply]
    /\ sarrivals = 0
    /\ got = NoGot
    /\ listing = NoListing

CredRequestsIdle ==
    /\ request_api_key = [c \in Contexts |-> RequestKeyDefault]
    /\ cpc = [r \in Reqs |-> "idle"]
    /\ ckind = [r \in Reqs |-> "none"]
    /\ hdr = [r \in Reqs |-> NoneV]
    /\ body = [r \in Reqs |-> NoneV]
    /\ api_key = [r \in Reqs |-> NoneV]
    /\ call = [r \in Reqs |-> PipelineCall]
    /\ client = [r \in Reqs |-> NoClient]
    /\ carrivals = 0

CredQuiet ==
    /\ env_key = NoneV
    /\ env_project = NoneV
    /\ CredRequestsIdle

LLMCallersIdle ==
    /\ memory = <<>>
    /\ lpc = [c \in Reqs |-> "idle"]
    /\ largs = [c \in Reqs |-> NoArgs]
    /\ lresp = [c \in Reqs |-> NoResp]
    /\ lhit = [c \in Reqs |-> FALSE]
    /\ lresult = [c \in Reqs |-> NoResult]
    /\ backend_calls = [a \in LlmArgs |-> 0]
    /\ lcalls = 0
    /\ overlapped = FALSE

LLMQuiet ==
    /\ CACHE_LLM = FALSE
    /\ LLMCallersIdle

\* SpecInit: one caller about to call init_llm_client, with any arguments, any
\* environment, and any key set in its context.
DirectCaller == 1

InitDirect ==
    /\ env_key \in EnvKeyVals
    /\ env_project \in EnvProjectVals
    /\ request_api_key \in [Contexts -> {RequestKeyDefault}]
                          \cup {[c \in Contexts |-> IF c = DirectCaller THEN k ELSE RequestKeyDefault]
                                : k \in KeyVals}
    /\ cpc = [r \in Reqs |-> IF r = DirectCaller THEN "direct" ELSE "idle"]
    /\ ckind = [r \in Reqs |-> IF r = DirectCaller THEN "direct" ELSE "none"]
    /\ hdr = [r \in Reqs |-> NoneV]
    /\ body = [r \in Reqs |-> NoneV]
    /\ api_key = [r \in Reqs |-> NoneV]
    /\ \E a \in Calls : call = [r \in Reqs |-> IF r = DirectCaller THEN a ELSE PipelineCall]
    /\ client = [r \in Reqs |-> NoClient]
    /\ carrivals = 0
    /\ LLMQuiet
    /\ SrvQuiet

NextDirect == DirectInit(DirectCaller) /\ CredStep

SpecInit == InitDirect /\ [][NextDirect]_vars

\* SpecCred: requests arrive at the two extraction endpoints, concurrently.
InitCred ==
    /\ env_key \in EnvKeyVals
    /\ env_project = NoneV
    /\ CredRequestsIdle
    /\ LLMQuiet
    /\ SrvQuiet

NextCred ==
    \E r \in Reqs :
        \/ CArrive(r) /\ CredStep
        \/ Endpoint(r) /\ CredStep
        \/ ExtractEntry(r) /\ CredStep
        \/ InitClient(r) /\ CredStep
        \/ CFinish(r) /\ CredStep

SpecCred == InitCred /\ [][NextCred]_vars

\* SpecLLM: callers of generate_json, concurrently, with the cache on or off.
InitLLM ==
    /\ CACHE_LLM \in BOOLEAN
    /\ LLMCallersIdle
    /\ CredQuiet
    /\ SrvQuiet

NextLLM ==
    \E c \in Reqs :
        \/ LCall(c) /\ LLMStep
        \/ LInvoke(c) /\ LLMStep
        \/ LLookup(c) /\ LLMStep
        \/ LCachedCall(c) /\ LLMStep
        \/ LReturn(c) /\ LLMStep

SpecLLM == InitLLM /\ [][NextLLM]_vars

\* Spec: the same request at the two extraction endpoints, concurrently,
\* over an empty store.
Init ==
    /\ SrvQuiet
    /\ CredQuiet
    /\ LLMQuiet

Next ==
    \E r \in Reqs :
        \/ SArrive(r, RepeatedRequests) /\ SrvStep
        \/ BlockingExtract(r, CoreDocs) /\ SrvStep
        \/ StreamOpen(r, CoreDocs) /\ SrvStep
        \/ StreamChunk(r) /\ SrvStep
        \/ StreamBreaks(r) /\ SrvStep
        \/ StreamEnd(r) /\ SrvStep
        \/ Abandon(r) /\ SrvStep
        \/ SaveQuery(r) /\ SrvStep
        \/ SaveResults(r) /\ SrvStep
        \/ SFinish(r) /\ SrvStep

Spec == Init /\ [][Next]_vars

\* SpecSerial: one extraction request at a time, the backend answering with
\* any of AllDocs.
SerialSlot == 1

NextSerial ==
    \/ SArrive(SerialSlot, PlainRequests) /\ SrvStep
    \/ BlockingExtract(SerialSlot, AllDocs) /\ SrvStep
    \/ StreamOpen(SerialSlot, AllDocs) /\ SrvStep
    \/ StreamChunk(SerialSlot) /\ SrvStep
    \/ StreamBreaks(SerialSlot) /\ SrvStep
    \/ StreamEnd(SerialSlot) /\ SrvStep
    \/ Abandon(SerialSlot) /\ SrvStep
    \/ SaveQuery(SerialSlot) /\ SrvStep
    \/ SaveResults(SerialSlot) /\ SrvStep
    \/ SFinish(SerialSlot) /\ SrvStep

SpecSerial == Init /\ [][NextSerial]_vars

\* SpecStore: one extraction request at a time, of any content and with or
\* without a key, and lookups of the store in between its steps.
NextStore ==
    \/ SArrive(SerialSlot, Requests) /\ SrvStep
    \/ BlockingExtract(SerialSlot, StoreDocs) /\ SrvStep
    \/ StreamOpen(SerialSlot, StoreDocs) /\ SrvStep
    \/ StreamChunk(SerialSlot) /\ SrvStep
    \/ StreamBreaks(SerialSlot) /\ SrvStep
    \/ StreamEnd(SerialSlot) /\ SrvStep
    \/ Abandon(SerialSlot) /\ SrvStep
    \/ SaveQuery(SerialSlot) /\ SrvStep
    \/ SaveResults(SerialSlot) /\ SrvStep
    \/ SFinish(SerialSlot) /\ SrvStep
    \/ \E h \in HashIds : GetSavedQuery(h) /\ SrvStep
    \/ \E h \in HashIds : GetSavedResults(h) /\ SrvStep
    \/ TakeAnswer /\ SrvStep

SpecStore == Init /\ [][NextStore]_vars

\* SpecCrash: concurrent requests as in Spec, the backend answering with one
\* of StoreDocs, and the process dying at any point.
NextCrash ==
    \/ \E r \in Reqs :
          \/ SArrive(r, RepeatedRequests) /\ SrvStep
          \/ BlockingExtract(r, StoreDocs) /\ SrvStep
          \/ StreamOpen(r, StoreDocs) /\ SrvStep
          \/ StreamChunk(r) /\ SrvStep
          \/ StreamBreaks(r) /\ SrvStep
          \/ StreamEnd(r) /\ SrvStep
          \/ Abandon(r) /\ SrvStep
          \/ SaveQuery(r) /\ SrvStep
          \/ SaveResults(r) /\ SrvStep
          \/ SFinish(r) /\ SrvStep
          \/ CrashInSaveQuery(r) /\ SrvStep
          \/ CrashInSaveResults(r) /\ SrvStep
    \/ Crash /\ SrvStep

SpecCrash == Init /\ [][NextCrash]_vars

\* SpecList: the server starts over a saved/ directory that holds files it
\* did not write; one extraction request at a time, and listings of the
\* saved queries in between its steps.
InitList ==
    /\ queries \in StoreContents
    /\ results = <<>>
    /\ clock = 0
    /\ spc = [r \in Reqs |-> "idle"]
    /\ skind = [r \in Reqs |-> "none"]
    /\ req = [r \in Reqs |-> NoRequest]
    /\ pending = [r \in Reqs |-> <<>>]
    /\ emitted = [r \in Reqs |-> <<>>]
    /\ exhausted = [r \in Reqs |-> FALSE]
    /\ response_text = [r \in Reqs |-> <<>>]
    /\ full_json = [r \in Reqs |-> <<>>]
    /\ chunks = [r \in Reqs |-> <<>>]
    /\ argument_map = [r \in Reqs |-> NoMap]
    /\ saved_hash = [r \in Reqs |-> NoHash]
    /\ reply = [r \in Reqs |-> NoReply]
    /\ sarrivals = 0
    /\ got = NoGot
    /\ listing = NoListing
    /\ CredQuiet
    /\ LLMQuiet

NextList ==
    \/ SArrive(SerialSlot, PlainRequests) /\ SrvStep
    \/ BlockingExtract(SerialSlot, StoreDocs) /\ SrvStep
    \/ StreamOpen(SerialSlot, StoreDocs) /\ SrvStep
    \/ StreamChunk(SerialSlot) /\ SrvStep
    \/ StreamBreaks(SerialSlot) /\ SrvStep
    \/ StreamEnd(SerialSlot) /\ SrvStep
    \/ Abandon(SerialSlot) /\ SrvStep
    \/ SaveQuery(SerialSlot) /\ SrvStep
    \/ SaveResults(SerialSlot) /\ SrvStep
    \/ SFinish(SerialSlot) /\ SrvStep
    \/ ListSavedQueries /\ LstStep
    \/ TakeListing /\ LstStep

SpecList == InitList /\ [][NextList]_vars

(***************************************************************************)
(* The claims.                                                             *)
(***************************************************************************)
\* the first truthy value of a sequence, None when there is none
RECURSIVE FirstNonEmpty(_)
FirstNonEmpty(vs) ==
    IF vs = <<>> THEN NoneV
    ELSE IF Truthy(Head(vs)) THEN Head(vs)
    ELSE FirstNonEmpty(Tail(vs))

\* the key a request itself supplied (header before body)
SuppliedKey(r) == FirstNonEmpty(<<hdr[r], body[r]>>)

\* C1: the request-scoped key a request reads is its own: in every state, the
\* value of the request key in a request's context is the key that request
\* supplied, or the default None when it supplied none, whatever the other
\* requests in flight and the earlier requests set; and a client resolved
\* for the request is built from its own key or the environment default.
C1_RequestKeyIsolated ==
    \A r \in Reqs :
        (cpc[r] # "idle") =>
            /\ get_request_api_key(request_api_key, r) \in {RequestKeyDefault, SuppliedKey(r)}
            /\ (cpc[r] \in {"init", "done"} =>
                    get_request_api_key(request_api_key, r) = SuppliedKey(r))
            /\ (client[r].kind = "api_key" =>
                    client[r].key \in {SuppliedKey(r), env_key})
            /\ (client[r].kind = "api_key" /\ Truthy(SuppliedKey(r)) =>
                    client[r].key = SuppliedKey(r))

\* C1 witness: two requests in flight at once supplied different keys and
\* each resolved its own.
C1_Witness ==
    \E r1 \in Reqs, r2 \in Reqs :
        /\ r1 # r2
        /\ cpc[r1] = "done" /\ cpc[r2] = "done"
        /\ Truthy(SuppliedKey(r1)) /\ Truthy(SuppliedKey(r2))
        /\ SuppliedKey(r1) # SuppliedKey(r2)
        /\ client[r1].kind = "api_key" /\ client[r1].key = SuppliedKey(r1)
        /\ client[r2].kind = "api_key" /\ client[r2].key = SuppliedKey(r2)

\* C2: init_llm_client builds the client from the first non-empty of the
\* explicit api_key, the request-scoped key and GEMINI_API_KEY, in that
\* order; it uses the project (the project argument, else
\* GOOGLE_CLOUD_PROJECT) only when all three keys are empty; and it reports
\* LLMNotConfigured exactly when a required client has no source at all.
C2_PriorityOrder ==
    \A r \in Reqs :
        (cpc[r] = "done" /\ ckind[r] = "direct") =>
            LET k == FirstNonEmpty(<<call[r].api_key,
                                     get_request_api_key(request_api_key, r), env_key>>)
                p == FirstNonEmpty(<<call[r].project, env_project>>)
                c == client[r]
            IN  /\ (c.kind = "api_key" => Truthy(k) /\ c.key = k)
                /\ (c.kind = "vertex" => ~Truthy(k) /\ Truthy(p) /\ c.project = p)
                /\ (Truthy(k) /\ ~call[r].fails => c.kind = "api_key")
                /\ (~Truthy(k) /\ Truthy(p) /\ ~call[r].fails => c.kind = "vertex")
                /\ (c.kind = "LLMNotConfigured" <=>
                        call[r].required /\ ~Truthy(k) /\ ~Truthy(p))

\* C2 witness: the explicit key is empty, the request key and the environment
\* key are both set, and the client is built from the request key.
C2_Witness ==
    \E r \in Reqs :
        /\ cpc[r] = "done" /\ ckind[r] = "direct"
        /\ call[r].api_key = EmptyStr
        /\ Truthy(get_request_api_key(request_api_key, r))
        /\ Truthy(env_key)
        /\ client[r].kind = "api_key"
        /\ client[r].key = get_request_api_key(request_api_key, r)


\* the call ended with a backend response of its own in hand
GotResponse(c) ==
    /\ lpc[c] = "done"
    /\ ~lhit[c]
    /\ lresult[c].kind \in {"ok", "LLMCallError"}

\* the response's text payload: its text, or else its output_text
Payload(resp) == IF resp.text # NoneV THEN resp.text ELSE resp.output_text

\* C7 as claimed: generate_json fails with LLMCallError whenever the
\* response's text payload is absent or is not a string, and never returns
\* the empty string in its place.
C7_AbsentPayloadFails ==
    \A c \in Reqs :
        (GotResponse(c) /\ (Payload(lresp[c]) = NoneV \/ ~IsStr(Payload(lresp[c])))) =>
            lresult[c].kind = "LLMCallError"

\* C7 as amended: generate_json fails with LLMCallError exactly when the
\* first truthy one of the response's text and output_text is not a string;
\* when it is a string that string is returned, and when neither is truthy
\* (absent, None, empty, or a falsy non-string) the empty string is returned,
\* with the cache on or off.
C7_CallErrorOnlyForTruthyNonString ==
    \A c \in Reqs :
        GotResponse(c) =>
            LET p == FirstNonEmpty(<<lresp[c].text, lresp[c].output_text>>)
            IN  IF Truthy(p) /\ ~IsStr(p)
                THEN lresult[c] = Failed("LLMCallError")
                ELSE lresult[c] = Returned(IF Truthy(p) THEN p ELSE EmptyStr)

\* C7 witness: with the cache on, a response with no text at all came back
\* and generate_json returned the empty string.
C7_Witness ==
    /\ CACHE_LLM
    /\ \E c \in Reqs :
          /\ GotResponse(c)
          /\ lresp[c] = NoResp
          /\ lresult[c] = Returned(EmptyStr)

\* C9 as claimed: with the cache on, in a run whose calls never overlap, the
\* backend is invoked at most once per (contents, model, config).
C9_AtMostOneInvocation ==
    (CACHE_LLM /\ ~overlapped) => \A a \in LlmArgs : backend_calls[a] <= 1

\* a call that finds its arguments stored returns what the uncached path
\* returns for a response with that text, and leaves the backend alone
C9_HitStep ==
    \A c \in Reqs :
        (lpc[c] = "lookup" /\ lpc'[c] # "lookup" /\ largs[c] \in DOMAIN memory) =>
            /\ lpc'[c] = "done"
            /\ backend_calls' = backend_calls
            /\ memory' = memory
            /\ \A resp \in Resps :
                  TextOf(resp) = memory[largs[c]] => lresult'[c] = generate_json_tail(resp)

\* while calls do not overlap, the backend is invoked only for arguments
\* that have nothing stored
C9_InvokeStep ==
    \A a \in LlmArgs :
        (CACHE_LLM /\ ~overlapped' /\ backend_calls'[a] > backend_calls[a]) =>
            a \notin DOMAIN memory

\* a call that invoked the backend returns what the uncached path returns
\* for the response, and stored the response's text
C9_Transparent ==
    \A c \in Reqs :
        (CACHE_LLM /\ GotResponse(c)) =>
            /\ lresult[c] = generate_json_tail(lresp[c])
            /\ largs[c] \in DOMAIN memory

\* C9 as amended: with the cache on, a call whose (contents, model, config)
\* has a stored text returns that text without invoking the backend, and
\* the caller gets what it would get with caching disabled; the backend is
\* invoked again for the same arguments only when nothing was stored for
\* them (an invocation that raised stores nothing) or when calls overlap.
C9_StoredTextIsReused ==
    /\ []C9_Transparent
    /\ [][C9_HitStep /\ C9_InvokeStep]_vars

\* C9 witness: a call was answered from the store after one invocation.
C9_Witness ==
    /\ CACHE_LLM
    /\ \E c \in Reqs :
          /\ lpc[c] = "done" /\ lhit[c]
          /\ backend_calls[largs[c]] = 1
          /\ lresult[c].kind = "ok"

(***************************************************************************)
(* The extraction endpoints and the store.                                 *)
(***************************************************************************)
RECURSIVE Concat(_)
Concat(seqs) == IF seqs = <<>> THEN <<>> ELSE Head(seqs) \o Concat(Tail(seqs))

\* The request's model call, parse and conversion all succeeded.
Converted(r) ==
    /\ exhausted[r]
    /\ IsJson(response_text[r])
    /\ Loads(response_text[r]).isdict
    /\ Lacking(DictGet(Loads(response_text[r]).m, "nodes", <<>>), NodeFields) = {}
    /\ Lacking(DictGet(Loads(response_text[r]).m, "edges", <<>>), EdgeFields) = {}

C3_NoSaveUnlessConverted ==
    \A r \in Reqs :
        /\ saved_hash[r] # NoHash => Converted(r)
        /\ (spc[r] \in {"done", "abandoned"} /\ ~reply[r].success) => saved_hash[r] = NoHash

C3_StoreStep ==
    (queries' # queries \/ results' # results) =>
        \E r \in Reqs :
            /\ Converted(r)
            /\ spc[r] \in {"save_query", "save_results"}
            /\ spc'[r] # spc[r]
            /\ \A q \in Reqs \ {r} : spc'[q] = spc[q]

\* C3: the query store and the result store change only in the save steps of
\* a request whose model call, JSON parse and node/edge conversion all
\* succeeded; a request that failed, or a stream that was abandoned after
\* some of its fragments, has run neither save_query nor save_results, in the
\* blocking and in the streaming endpoint alike.
C3_PersistOnlyAfterConversion == []C3_NoSaveUnlessConverted /\ [][C3_StoreStep]_vars

\* A stream abandoned after some but not all of its fragments, next to a
\* request whose document lacked a field, and nothing in either store.
C3_Witness ==
    \E r, q \in Reqs :
        /\ spc[r] = "abandoned"
        /\ chunks[r] # <<>>
        /\ pending[r] # <<>>
        /\ spc[q] = "done"
        /\ reply[q].exc.exc = "KeyError"
        /\ queries = <<>>
        /\ results = <<>>

C4_IdOfContent ==
    \A r \in Reqs :
        saved_hash[r] # NoHash =>
            /\ \A rq \in Requests, now \in 0..clock :
                  Content(rq) = Content(req[r]) => QueryHash(QueryData(rq, now)) = saved_hash[r]
            /\ \A h \in DOMAIN queries :
                  Content(queries[h]) = Content(req[r]) => h = saved_hash[r]

C4_SaveAgainStep ==
    \A r \in Reqs :
        (spc[r] = "save_query" /\ spc'[r] = "save_results") =>
            \A h \in DOMAIN queries :
                Content(queries[h]) = Content(req[r]) =>
                    /\ saved_hash'[r] = h
                    /\ DOMAIN queries' = DOMAIN queries
                    /\ Content(queries'[h]) = Content(queries[h])
                    /\ queries'[h].timestamp = clock
                    /\ \A g \in DOMAIN queries \ {h} : queries'[g] = queries[g]

\* C4: the id save_query returns depends on {text, temperature, model} only,
\* not on the timestamp and not on the request's API key; saving content that
\* already has a record returns that record's id and rewrites that one
\* record: the set of records is the same, its text, temperature and model
\* are the same, and its timestamp is the time of this save.
C4_SaveQueryIdempotent == []C4_IdOfContent /\ [][C4_SaveAgainStep]_vars

\* A second save of the same content, by a request carrying a key: still one
\* record, with the second save's timestamp.
C4_Witness ==
    \E r \in Reqs :
        /\ spc[r] = "save_results"
        /\ req[r].api_key = 1
        /\ clock = 2
        /\ Cardinality(DOMAIN queries) = 1
        /\ queries[saved_hash[r]].timestamp = 1

\* C5: once the whole response text is in hand and it is not JSON, the
\* extraction (blocking, or streaming after exhaustion) has failed with
\* ValueError "LLM returned invalid JSON" and there is no ArgumentMap.
C5_InvalidJsonFails ==
    \A r \in Reqs :
        (exhausted[r] /\ ~IsJson(response_text[r])) =>
            /\ reply[r].exc = Exc("ValueError", "LLM returned invalid JSON")
            /\ ~reply[r].success
            /\ reply[r].result = NoMap
            /\ argument_map[r] = NoMap

\* A stream that delivered fragments to its end, and their concatenation is
\* not JSON.
C5_Witness ==
    \E r \in Reqs :
        /\ skind[r] = "stream"
        /\ exhausted[r]
        /\ chunks[r] # <<>>
        /\ ~IsJson(response_text[r])
        /\ reply[r].exc.exc = "ValueError"

\* the response text is a JSON object with a node or edge entry lacking a field
LacksField(text) ==
    /\ IsJson(text)
    /\ Loads(text).isdict
    /\ \/ Lacking(DictGet(Loads(text).m, "nodes", <<>>), NodeFields) # {}
       \/ Lacking(DictGet(Loads(text).m, "edges", <<>>), EdgeFields) # {}

\* C6: a JSON response with a node entry missing id, content or type, or an
\* edge entry missing source, target or type, is reported by the server as
\* an 'Extraction error', the class of unparseable JSON.
C6_MissingFieldIsExtractionError ==
    \A r \in Reqs :
        (exhausted[r] /\ LacksField(response_text[r])) =>
            /\ ~reply[r].success
            /\ reply[r].error = "Extraction error"

\* C8: in a streaming request the chunks sent to the caller are the
\* fragments the backend emitted, in that order and once each, and both
\* accumulators (extract.py's and server.py's) equal the concatenation of the
\* chunks sent so far; so the text parsed at exhaustion is that concatenation.
C8_FragmentsInOrder ==
    \A r \in Reqs :
        skind[r] = "stream" =>
            /\ chunks[r] = emitted[r]
            /\ response_text[r] = Concat(chunks[r])
            /\ full_json[r] = Concat(chunks[r])

\* A stream that has sent two fragments, the second of them of two tokens.
C8_Witness ==
    \E r \in Reqs :
        /\ skind[r] = "stream"
        /\ exhausted[r]
        /\ Len(chunks[r]) = 2
        /\ Len(chunks[r][2]) = 2
        /\ chunks[r][1] # chunks[r][2]

C10_LookupStep ==
    (got = NoGot /\ got' # NoGot) =>
        /\ got'.ns = "saved" =>
              (got'.status = "not found" <=> got'.id \notin DOMAIN queries)
        /\ got'.ns = "saved-results" =>
              (got'.status = "not found" <=> got'.id \notin DOMAIN results)
        /\ got'.status \in {"ok", "not found"}

\* C10: a lookup of a saved query answers not-found exactly when the id is
\* not in the query store, and a lookup of saved results exactly when the id
\* is not in the result store, whatever the other store holds.
C10_LookupsIndependent == [][C10_LookupStep]_vars

\* Between a request's save_query and its save_results, the lookup of the
\* results under the id just saved: not found, though the query is there.
C10_Witness ==
    \E r \in Reqs :
        /\ spc[r] = "save_results"
        /\ saved_hash[r] \in DOMAIN queries
        /\ got = [ns |-> "saved-results", id |-> saved_hash[r], status |-> "not found"]

\* the response text is a JSON document without "nodes" or without "edges"
FieldAbsent(text) ==
    /\ IsJson(text)
    /\ \/ "nodes" \notin DOMAIN Loads(text).m
       \/ "edges" \notin DOMAIN Loads(text).m

\* the extraction of request r succeeded, and what it returned (blocking) or
\* what the terminal event carries (streaming) has an empty sequence for
\* each of nodes and edges that the document does not have
EmptyForAbsent(r) ==
    LET m == Loads(response_text[r]).m
        emptied(amap) ==
            /\ amap.version = "1.0"
            /\ "nodes" \notin DOMAIN m => amap.nodes = <<>>
            /\ "edges" \notin DOMAIN m => amap.edges = <<>>
    IN  /\ reply[r].exc = NoExc
        /\ skind[r] = "blocking" => emptied(argument_map[r])
        /\ spc[r] = "done" => (reply[r].success /\ emptied(reply[r].result))

\* every node and edge entry the document has, has its required fields
EntriesComplete(text) ==
    LET m == Loads(text).m
    IN  /\ "nodes" \in DOMAIN m => Lacking(m["nodes"], NodeFields) = {}
        /\ "edges" \in DOMAIN m => Lacking(m["edges"], EdgeFields) = {}

C12_ListingNeverFails ==
    listing # NoListing =>
        /\ listing.status = "ok"
        /\ NewestFirst(listing.queries)

C13_ResultsHaveQueries == DOMAIN results \subseteq DOMAIN queries

C13_ResultStep ==
    results' # results =>
        \E r \in Reqs :
            /\ spc[r] = "save_results"
            /\ saved_hash[r] \in DOMAIN queries
            /\ DOMAIN results' = DOMAIN results \cup {saved_hash[r]}
            /\ DOMAIN queries \subseteq DOMAIN queries'

\* C13: in every reachable state, under any interleaving of blocking and
\* streaming requests and with the process dying at any point, every id of
\* the result store is an id of the query store; a result is only ever
\* written under the id that save_query returned earlier in the same
\* request, and no query is ever removed.
C13_ResultsSubsetOfQueries == []C13_ResultsHaveQueries /\ [][C13_ResultStep]_vars

\* After the process died between save_query and save_results: no request
\* in flight, and a query with no result.
C13_Witness ==
    /\ \A r \in Reqs : spc[r] = "idle"
    /\ \E h \in DOMAIN queries : h \notin DOMAIN results /\ ~Skipped(queries[h])

====
